---- MODULE Spec2Model ----
(***************************************************************************)
(* Connection / process lifecycle of the VNC QR kiosk launcher.            *)
(*                                                                         *)
(* The model covers the Tkinter application path:                          *)
(*   web_server.py        handle_vnc_connect / handle_vnc_disconnect /     *)
(*                        notify_vnc_status                                *)
(*   cli_vnc_handler.py   CLIVNCHandler (request handler, connect worker,  *)
(*                        handler-side monitor loop, disconnect_vnc)       *)
(*   cli_vnc_connector.py CLIVNCConnector (connect, disconnect, sweep,     *)
(*                        is_connected, background monitor, resolver)      *)
(*   gui_app.py           hide_window / show_window                        *)
(*                                                                         *)
(* Every thread of the program is a process of the model with its own      *)
(* program counter.  A step of the model is the code a thread runs from    *)
(* one blocking call (time.sleep, Popen.wait, subprocess.run, a Tk call)   *)
(* to the next; the interpreter may switch threads inside such a stretch   *)
(* too, so the model has a subset of the program's interleavings.          *)
(***************************************************************************)
EXTENDS Integers, Sequences, FiniteSets, TLC

VARIABLES
    system,        \* platform.system(): "Linux", "Windows" or "Darwin"
    installed,     \* files the host has: names on PATH, fixed locations, glob matches
    vnc_process,   \* CLIVNCConnector.vnc_process: 0 is None, else index into procs
    connected,     \* CLIVNCConnector.connected
    procs,         \* every child process ever started by subprocess.Popen
    pc,            \* position of each request's thread (connect worker / disconnect handler)
    sel,           \* selected_client argument of each connect worker, until it is resolved
    waiting,       \* the process a thread's vnc_process.wait(timeout=3) blocks on, 0 if none
    result,        \* return value of CLIVNCHandler.handle_vnc_request per request ("None": not yet)
    mon,           \* position of the _monitor_vnc_client thread started by each connect
    window_shown,  \* Tk root window mapped (deiconify) or withdrawn
    events,        \* 'vnc_status' messages sent to the web client, oldest first
    request,       \* ip, port, username, password arguments of each connect worker
    client_env_vars, \* CLIVNCConnector.client_env_vars (the attribute is created on first use)
    popen_args,    \* command and environment of the latest subprocess.Popen call
    saved_servers, \* ConfigManager.config['saved_servers'], as written to config.json
    vnc_clients,   \* the latest response of GET /api/vnc-clients
    settings,      \* ConfigManager.config['settings'], as written to config.json
    settings_response, \* the latest response of /api/settings
    Client,        \* pygame_vnc_connector.Client is not None: pyVNC could be imported
    vnc_client,    \* PygameVNCConnector.vnc_client: 0 is None, else index into clients
    clients,       \* every pyVNC Client object ever created by PygameVNCConnector
    connector_connected, \* PygameVNCConnector.connected
    connection_started,  \* PygameVNCConnector has the attribute _connection_started
    connection_attempts, \* PygameVNCConnector.connection_attempts
    connection_thread,   \* PygameVNCConnector.connection_thread: the connect call that
                         \* started it, 0 is None
    cthread,       \* position of the connection thread started by each connect call
    client_of,     \* the Client object each connect call created, 0 if none
    vnc_mode,      \* PygameVNCQRApp.vnc_mode
    ppc,           \* position of each thread of the Pygame application
    depth,         \* open VNCHandler.disconnect_vnc frames on each thread's call stack
    pygame_events  \* 'vnc_status' messages the Pygame application sent, oldest first

vars == <<system, installed, vnc_process, connected, procs, pc, sel, waiting,
          result, mon, window_shown, events, request, client_env_vars, popen_args,
          saved_servers, vnc_clients, settings, settings_response, Client, vnc_client, clients, connector_connected,
          connection_started, connection_attempts, connection_thread, cthread, client_of,
          vnc_mode, ppc, depth, pygame_events>>

envVars == <<system, installed>>

launchVars == <<request, client_env_vars, popen_args>>

apiVars == <<vnc_clients, settings, settings_response>>

\* the PygameVNCConnector instance of the Pygame application
connectorVars == <<vnc_client, clients, connector_connected, connection_started,
                   connection_attempts, connection_thread, cthread, client_of>>

pygameVars == <<Client, connectorVars, vnc_mode, ppc, depth, pygame_events>>

\* the Tkinter application and its CLIVNCConnector
cliVars == <<vnc_process, connected, procs, pc, sel, waiting, result, mon, window_shown,
             events, saved_servers>>

(***************************************************************************)
(* Bounds of the model.                                                    *)
(***************************************************************************)
\* number of vnc_connect requests a behaviour may contain
MaxReq == 2
\* number of vnc_disconnect requests a behaviour may contain
MaxDisc == 1
\* number of files (PATH entries, fixed locations, glob matches) the host has
MaxInstalled == 1

\* number of vnc_disconnect requests that arrive after an earlier one has completed
MaxAgain == 1
\* number of files the host of the resolver specification has
MaxFiles == 4
\* number of nested VNCHandler.disconnect_vnc calls the interpreter's recursion
\* limit allows (sys.getrecursionlimit() is 1000 frames)
RecursionLimit == 3
\* PygameVNCConnector.max_attempts (30 in the code)
max_attempts == 2

Reqs == 1..MaxReq
DReqs == (MaxReq + 1)..(MaxReq + MaxDisc)
\* the disconnect requests that follow a completed disconnect request
AReqs == (MaxReq + MaxDisc + 1)..(MaxReq + MaxDisc + MaxAgain)
\* the Tk main thread (root.mainloop()), which runs exit_app
App == MaxReq + MaxDisc + MaxAgain + 1
Threads == Reqs \cup DReqs \cup AReqs \cup {App}

None == "None"

(***************************************************************************)
(* Client registry (cli_vnc_connector.py).                                 *)
(***************************************************************************)
\* keys of the clients dict of _get_linux_vnc_command, in its try order
LinuxOrder == <<"remmina", "tigervnc", "vinagre">>
\* try order of _get_windows_vnc_command (TigerVNC first)
WindowsOrder == <<"tigervnc", "tightvnc", "realvnc", "ultravnc">>

LinuxKeys == {LinuxOrder[i] : i \in DOMAIN LinuxOrder}
WindowsKeys == {WindowsOrder[i] : i \in DOMAIN WindowsOrder}

\* 'executable' of each entry of the Linux clients dict
LinuxExecutable(key) ==
    CASE key = "remmina"  -> "remmina"
      [] key = "tigervnc" -> "vncviewer"
      [] key = "vinagre"  -> "vinagre"

\* 'executable' of each entry of the Windows clients dict that has no search_patterns
WindowsExecutable(key) ==
    CASE key = "tightvnc" -> "tvnviewer.exe"
      [] key = "realvnc"  -> "vncviewer.exe"
      [] key = "ultravnc" -> "vncviewer.exe"
      [] key = "tigervnc" -> "vncviewer*.exe"

\* 'locations' of each entry of the Windows clients dict, in list order
WindowsLocations(key) ==
    CASE key = "tightvnc" -> << "C:/Program Files/TightVNC/tvnviewer.exe",
                                "C:/Program Files (x86)/TightVNC/tvnviewer.exe" >>
      [] key = "realvnc"  -> << "C:/Program Files/RealVNC/VNC Viewer/vncviewer.exe",
                                "C:/Program Files (x86)/RealVNC/VNC Viewer/vncviewer.exe" >>
      [] key = "ultravnc" -> << "C:/Program Files/uvnc bvba/UltraVNC/vncviewer.exe",
                                "C:/Program Files (x86)/uvnc bvba/UltraVNC/vncviewer.exe",
                                "C:/Program Files/UltraVNC/vncviewer.exe",
                                "C:/Program Files (x86)/UltraVNC/vncviewer.exe" >>
      [] key = "tigervnc" -> << >>

\* os.path.basename of the fixed locations
Basename(path) ==
    IF path \in {WindowsLocations("tightvnc")[i] : i \in 1..2}
    THEN "tvnviewer.exe" ELSE "vncviewer.exe"

\* 'search_patterns' of the Windows tigervnc entry, in list order
SearchPatterns == << "vncviewer64-*.*.*.exe", "vncviewer-*.*.*.exe",
                     "**/vncviewer64-*.*.*.exe", "**/vncviewer-*.*.*.exe" >>

\* Standalone TigerVNC files the working directory and its subdirectories may
\* hold, in ascending string order ('s' < 'v' < 'x' and '-' < '6'), so the index
\* of a file is its rank under sort().
GlobFiles == << "sub/vncviewer-1.2.0.exe", "vncviewer-1.2.0.exe",
                "vncviewer64-1.13.1.exe", "x64/vncviewer64-1.13.1.exe" >>

\* glob.glob(pattern, recursive=True): which of GlobFiles a pattern matches.
\* A pattern without a directory part matches files of the working directory only;
\* '**/' matches zero or more directories.
GlobMatches(pattern, file) ==
    CASE pattern = "vncviewer64-*.*.*.exe"    -> file = "vncviewer64-1.13.1.exe"
      [] pattern = "vncviewer-*.*.*.exe"      -> file = "vncviewer-1.2.0.exe"
      [] pattern = "**/vncviewer64-*.*.*.exe" ->
             file \in {"vncviewer64-1.13.1.exe", "x64/vncviewer64-1.13.1.exe"}
      [] pattern = "**/vncviewer-*.*.*.exe"   ->
             file \in {"vncviewer-1.2.0.exe", "sub/vncviewer-1.2.0.exe"}

\* os.path.basename of a glob match
GlobBasename(file) ==
    IF file \in {"vncviewer64-1.13.1.exe", "x64/vncviewer64-1.13.1.exe"}
    THEN "vncviewer64-1.13.1.exe" ELSE "vncviewer-1.2.0.exe"

SeqRange(s) == {s[i] : i \in DOMAIN s}

\* every file a host of the given system may have that the resolver looks at
HostFiles(sys) ==
    CASE sys = "Linux"   -> {LinuxExecutable(k) : k \in LinuxKeys}
      [] sys = "Windows" -> {"tvnviewer.exe", "vncviewer.exe"}
                            \cup UNION {SeqRange(WindowsLocations(k)) : k \in WindowsKeys}
                            \cup SeqRange(GlobFiles)
      [] sys = "Darwin"  -> {}

Systems == {"Linux", "Windows", "Darwin"}

(***************************************************************************)
(* Client resolution (cli_vnc_connector.py, _get_vnc_command and below).   *)
(* A resolved command is the record [client, exe]: the registry key that   *)
(* was chosen and the basename of the executable that Popen will run.      *)
(***************************************************************************)
NoCmd == [client |-> None, exe |-> None]

\* shutil.which(name) / os.path.exists(path)
which(inst, name) == name \in inst

\* index of the first element of s satisfying membership in S, 0 if none
FirstIn(s, S) ==
    IF \E i \in DOMAIN s : s[i] \in S
    THEN CHOOSE i \in DOMAIN s : s[i] \in S /\ \A j \in 1..(i-1) : s[j] \notin S
    ELSE 0

\* _find_tigervnc_executable: the first pattern that has matches decides; its
\* matches are sorted in reverse and the first is taken.
find_tigervnc_executable(inst) ==
    LET hits(i) == {f \in SeqRange(GlobFiles) \cap inst : GlobMatches(SearchPatterns[i], f)}
        pats    == {i \in DOMAIN SearchPatterns : hits(i) # {}}
    IN IF pats = {} THEN None
       ELSE LET p  == CHOOSE i \in pats : \A j \in pats : i <= j
                ix == {k \in DOMAIN GlobFiles : GlobFiles[k] \in hits(p)}
                m  == CHOOSE k \in ix : \A j \in ix : j <= k
            IN GlobFiles[m]

\* _try_client
try_client(inst, key) ==
    IF key = "tigervnc"
    THEN LET path == find_tigervnc_executable(inst)
         IN IF path = None THEN NoCmd
            ELSE [client |-> key, exe |-> GlobBasename(path)]
    ELSE IF which(inst, WindowsExecutable(key))
         THEN [client |-> key, exe |-> WindowsExecutable(key)]
         ELSE LET i == FirstIn(WindowsLocations(key), inst)
              IN IF i = 0 THEN NoCmd
                 ELSE [client |-> key, exe |-> Basename(WindowsLocations(key)[i])]

\* _get_windows_vnc_command with the loop keeping the last client found
get_windows_vnc_command_last(inst, selected_client) ==
    IF selected_client # None /\ selected_client \in WindowsKeys
    THEN try_client(inst, selected_client)
    ELSE LET found == {i \in DOMAIN WindowsOrder : try_client(inst, WindowsOrder[i]) # NoCmd}
         IN IF found = {} THEN NoCmd
            ELSE try_client(inst, WindowsOrder[CHOOSE i \in found : \A j \in found : j <= i])

\* _get_windows_vnc_command
get_windows_vnc_command(inst, selected_client) ==
    IF selected_client # None /\ selected_client \in WindowsKeys
    THEN try_client(inst, selected_client)
    ELSE LET found == {i \in DOMAIN WindowsOrder : try_client(inst, WindowsOrder[i]) # NoCmd}
         IN IF found = {} THEN NoCmd
            ELSE try_client(inst, WindowsOrder[CHOOSE i \in found : \A j \in found : i <= j])

\* _get_linux_vnc_command: a selected client that is not installed falls through
\* to the loop over all clients
get_linux_vnc_command(inst, selected_client) ==
    IF /\ selected_client # None
       /\ selected_client \in LinuxKeys
       /\ which(inst, LinuxExecutable(selected_client))
    THEN [client |-> selected_client, exe |-> LinuxExecutable(selected_client)]
    ELSE LET found == {i \in DOMAIN LinuxOrder : which(inst, LinuxExecutable(LinuxOrder[i]))}
         IN IF found = {} THEN NoCmd
            ELSE LET k == LinuxOrder[CHOOSE i \in found : \A j \in found : i <= j]
                 IN [client |-> k, exe |-> LinuxExecutable(k)]

\* _get_macos_vnc_command: always ['open', vnc_url]
get_macos_vnc_command(inst, selected_client) ==
    [client |-> "macos_screen_sharing", exe |-> "open"]

\* _get_vnc_command
get_vnc_command(sys, inst, selected_client) ==
    CASE sys = "Windows" -> get_windows_vnc_command(inst, selected_client)
      [] sys = "Darwin"  -> get_macos_vnc_command(inst, selected_client)
      [] OTHER           -> get_linux_vnc_command(inst, selected_client)

(***************************************************************************)
(* The list of available clients (cli_vnc_connector.py,                    *)
(* get_available_clients, and the /api/vnc-clients route).                 *)
(***************************************************************************)
\* every file get_available_clients looks at on a host of the given system: on
\* Linux it passes the keys of its clients dict to shutil.which
ListedFiles(sys) ==
    CASE sys = "Linux" -> LinuxKeys
      [] OTHER         -> HostFiles(sys)

\* get_available_clients, Windows branch: client_found for one key of its dict
client_found(inst, key) ==
    IF key = "tigervnc"
    THEN find_tigervnc_executable(inst) # None
    ELSE \/ which(inst, WindowsExecutable(key))
         \/ FirstIn(WindowsLocations(key), inst) # 0

\* get_available_clients: the 'id' of each entry of the list it returns, in order
get_available_clients(sys, inst) ==
    CASE sys = "Windows" -> SelectSeq(WindowsOrder, LAMBDA key : client_found(inst, key))
      [] sys = "Darwin"  -> <<"macos_screen_sharing">>
      [] OTHER           -> SelectSeq(LinuxOrder, LAMBDA key : which(inst, key))

\* the value of vnc_clients before the first GET /api/vnc-clients
NoClients == [status |-> None, clients |-> << >>]

(***************************************************************************)
(* The command line and the child environment (cli_vnc_connector.py).      *)
(***************************************************************************)
\* _get_vnc_command: connection_string
connection_string(host, port) ==
    IF port = 5900 THEN host
    ELSE IF port > 5900 THEN host \o ":" \o ToString(port - 5900)
    ELSE host \o ":" \o ToString(port)

\* 'auth_method' of each entry of the Windows clients dict
WindowsAuthMethod(key) ==
    CASE key = "tightvnc" -> "cli_param"
      [] key = "realvnc"  -> "manual"
      [] key = "tigervnc" -> "env_vars"
      [] key = "ultravnc" -> "cli_param"

\* 'auth_method' of each entry of the Linux clients dict
LinuxAuthMethod(key) ==
    CASE key = "remmina"  -> "url_based"
      [] key = "tigervnc" -> "env_vars"
      [] key = "vinagre"  -> "url_based"

\* 'supports_password' of each entry of the Windows clients dict
WindowsSupportsPassword(key) == key # "realvnc"

\* 'supports_password' of each entry of the Linux clients dict
LinuxSupportsPassword(key) == key \in LinuxKeys

\* 'args' of each entry of the Windows clients dict
WindowsArgs(key, cs, password) ==
    CASE key = "tightvnc" ->
             <<"-host", cs>> \o (IF password # "" THEN <<"-password", password>> ELSE << >>)
      [] key = "realvnc"  -> <<cs>>
      [] key = "tigervnc" -> <<cs>>
      [] key = "ultravnc" ->
             <<cs>> \o (IF password # "" THEN <<"-password", password>> ELSE << >>)

\* 'args' of each entry of the Linux clients dict
LinuxArgs(key, cs) ==
    CASE key = "remmina"  -> <<"-c", "vnc://" \o cs>>
      [] key = "tigervnc" -> <<cs>>
      [] key = "vinagre"  -> <<"vnc://" \o cs>>

\* vnc_url of _get_macos_vnc_command
macos_vnc_url(cs, username, password) ==
    IF username # "" /\ password # "" THEN "vnc://" \o username \o ":" \o password \o "@" \o cs
    ELSE IF username # "" THEN "vnc://" \o username \o "@" \o cs
    ELSE "vnc://" \o cs

\* values of the client_env_vars attribute: not created yet, None, or the
\* 'env_vars' dict of a clients entry
NoAttribute == [kind |-> "unset", VNC_USERNAME |-> None, VNC_PASSWORD |-> None]
NoEnvVars == [kind |-> "None", VNC_USERNAME |-> None, VNC_PASSWORD |-> None]
env_vars(username, password) ==
    [kind |-> "dict", VNC_USERNAME |-> username, VNC_PASSWORD |-> password]

\* executable_path with the fixed locations tried before the search path
executable_path_locations_first(inst, key) ==
    IF key = "tigervnc" THEN find_tigervnc_executable(inst)
    ELSE IF FirstIn(WindowsLocations(key), inst) # 0
    THEN WindowsLocations(key)[FirstIn(WindowsLocations(key), inst)]
    ELSE WindowsExecutable(key)

\* executable_path of _try_client, for a client that was found
executable_path(inst, key) ==
    IF key = "tigervnc" THEN find_tigervnc_executable(inst)
    ELSE IF which(inst, WindowsExecutable(key)) THEN WindowsExecutable(key)
    ELSE WindowsLocations(key)[FirstIn(WindowsLocations(key), inst)]

\* the list _get_vnc_command returns when it resolved to c; _try_client drops
\* empty arguments from it
command(sys, inst, c, data) ==
    LET cs == connection_string(data.ip, data.port)
    IN CASE sys = "Windows" ->
                SelectSeq(<<executable_path(inst, c.client)>>
                              \o WindowsArgs(c.client, cs, data.password),
                          LAMBDA arg : arg # "")
         [] sys = "Darwin"  -> <<"open", macos_vnc_url(cs, data.username, data.password)>>
         [] OTHER           -> <<LinuxExecutable(c.client)>> \o LinuxArgs(c.client, cs)

\* self.client_env_vars after _get_vnc_command: _try_client assigns it when it
\* finds the client; on Linux only the loop over all clients assigns it, the
\* branch of a selected and installed client does not; macOS never does
set_client_env_vars(sys, inst, selected_client, data, prev) ==
    LET c == get_vnc_command(sys, inst, selected_client)
        vars_of(method) == IF method = "env_vars"
                           THEN env_vars(data.username, data.password) ELSE NoEnvVars
    IN CASE sys = "Windows" ->
                IF c = NoCmd THEN prev ELSE vars_of(WindowsAuthMethod(c.client))
         [] sys = "Darwin"  -> prev
         [] OTHER ->
                IF c = NoCmd THEN prev
                ELSE IF /\ selected_client # None
                        /\ selected_client \in LinuxKeys
                        /\ which(inst, LinuxExecutable(selected_client))
                     THEN prev
                     ELSE vars_of(LinuxAuthMethod(c.client))

\* connect: `if hasattr(self, 'client_env_vars') and self.client_env_vars:
\* env.update(self.client_env_vars)` -- what the child gets on top of os.environ
child_env(attr) == IF attr.kind = "dict" THEN attr ELSE NoEnvVars

\* no subprocess.Popen call yet
NoPopen == [client |-> None, cmd |-> << >>, env |-> NoEnvVars]

\* vnc_executables of _kill_vnc_processes, per system
SweepNames(sys) ==
    CASE sys = "Windows" -> {"tvnviewer.exe", "vncviewer.exe"}
      [] sys = "Darwin"  -> {}
      [] OTHER           -> {"remmina", "vncviewer", "vinagre", "krdc"}

\* taskkill /F /IM name matches the image name; pkill -f name matches the command
\* line, which for the Linux registry starts with the executable name itself
SweepCovers(sys, exe) == exe \in SweepNames(sys)

(***************************************************************************)
(* Requests and status events.                                             *)
(***************************************************************************)
Hosts == {"", "192.168.1.5"}
Ports == {0, 5901}
Users == {"", "alice"}
\* client ids a request may name: none, a key of both registries, a key of the
\* Linux registry only (unknown on Windows)
Selections == {None, "tigervnc", "vinagre"}
\* the password every request of the lifecycle specifications carries
SessionPasswords == {"secret"}

\* the 'data' payload of a vnc_connect message, as far as the handler reads it
ConnectData == [ip : Hosts, port : Ports, username : Users, password : SessionPasswords,
                client : Selections, save_server : {FALSE}]

\* the requests of the resolver specification: any client of either registry or
\* none, with and without a password
Passwords == {"", "secret"}
ResolveData == [ip : {"192.168.1.5"}, port : {5901}, username : {"alice"},
                password : Passwords, client : {None} \cup LinuxKeys \cup WindowsKeys,
                save_server : {FALSE}]

\* the arguments handle_vnc_request passes to the connect worker, besides the client
NoRequest == [ip |-> "", port |-> 0, username |-> "", password |-> ""]
RequestOf(data) == [ip |-> data.ip, port |-> data.port, username |-> data.username,
                    password |-> data.password]

\* one 'vnc_status' message: its status, the request whose thread sent it, and
\* the function that sent it
Event(status, req, by) == [status |-> status, req |-> req, by |-> by]

\* WebServer.notify_vnc_status / flask_socketio.emit: the message goes out at once
notify_vnc_status(status, req, by) == events' = Append(events, Event(status, req, by))

(***************************************************************************)
(* Child processes.                                                        *)
(***************************************************************************)
Alive(p) == procs[p].state # "dead"

\* subprocess.Popen.poll() is None
PollIsNone(p) == Alive(p)

\* the process table after process p has ended for the given reason; `how` is
\* kept from the first time it ended, `ingrace` says whether the worker that
\* started it was still in its grace sleep
Ended(table, p, how) ==
    IF table[p].state = "dead" THEN table
    ELSE [table EXCEPT ![p] = [state |-> "dead", exe |-> table[p].exe, by |-> table[p].by,
                               how |-> how, ingrace |-> (pc[table[p].by] = "grace")]]

\* A child process ends by itself (or in response to an earlier SIGTERM).
ProcExit(p) ==
    /\ p \in DOMAIN procs
    /\ Alive(p)
    /\ procs' = Ended(procs, p, IF procs[p].state = "terminating" THEN "term" ELSE "exit")
    /\ UNCHANGED <<envVars, pygameVars, apiVars, launchVars, saved_servers, vnc_process, connected, pc, sel, waiting, result, mon,
                   window_shown, events>>

(***************************************************************************)
(* config_manager.py: the saved servers.  A server is a dict; the model    *)
(* keeps the keys ip, port, username and password, with None for a key the *)
(* dict does not have.                                                     *)
(***************************************************************************)
ServerData(ip, port, username, password) ==
    [ip |-> ip, port |-> port, username |-> username, password |-> password]

\* server.get('ip') == server_data.get('ip') and
\* server.get('port') == server_data.get('port')
SameServer(server, server_data) ==
    server.ip = server_data.ip /\ server.port = server_data.port

\* dict.update: the keys of server_data replace those of server (ip, port and
\* username are in every server_data of the model)
DictUpdate(server, server_data) ==
    ServerData(server_data.ip, server_data.port, server_data.username,
               IF server_data.password = None THEN server.password
               ELSE server_data.password)

\* save_server without the search for an existing server
save_server_append(servers, server_data) == Append(servers, server_data)

\* ConfigManager.save_server: the first saved server with the same ip and port is
\* updated, otherwise the server is appended; then the list is written out
save_server(servers, server_data) ==
    IF \E i \in DOMAIN servers : SameServer(servers[i], server_data)
    THEN LET i == CHOOSE j \in DOMAIN servers :
                      /\ SameServer(servers[j], server_data)
                      /\ \A k \in 1..(j - 1) : ~SameServer(servers[k], server_data)
         IN [servers EXCEPT ![i] = DictUpdate(servers[i], server_data)]
    ELSE Append(servers, server_data)

\* ConfigManager.delete_server: every saved server with the same ip and port goes
delete_server(servers, server_data) ==
    SelectSeq(servers, LAMBDA server : ~SameServer(server, server_data))

(***************************************************************************)
(* web_server.py: socket handlers.                                         *)
(***************************************************************************)
\* requests are numbered in the order in which they arrive
NextIdle(t, S) == pc[t] = "idle" /\ \A u \in S : u < t => pc[u] # "idle"

\* CLIVNCHandler.handle_vnc_request: `not all([ip, port, username])`
ValidRequest(data) == data.ip # "" /\ data.port # 0 /\ data.username # ""

\* the return value of handle_vnc_request as the model stores it
Returned(success) == IF success THEN "True" ELSE "False"

\* the status handle_vnc_connect replies with once vnc_callback(data) has returned
ConnectReply(success) == IF success THEN "connected" ELSE "failed"

\* handle_vnc_connect: with 'save_server' set, the ip, port and username of the
\* request are saved first; then CLIVNCHandler.handle_vnc_request validates the
\* request and either starts the connect worker thread and returns True, or
\* returns False without starting one; the handler then emits 'connected' or
\* 'failed'.
handle_vnc_connect(r, data) ==
    /\ NextIdle(r, Reqs)
    /\ saved_servers' = IF data.save_server
                        THEN save_server(saved_servers,
                                         ServerData(data.ip, data.port, data.username, None))
                        ELSE saved_servers
    /\ IF ValidRequest(data)
       THEN /\ pc' = [pc EXCEPT ![r] = "d1"]
            /\ sel' = [sel EXCEPT ![r] = data.client]
            /\ request' = [request EXCEPT ![r] = RequestOf(data)]
       ELSE /\ pc' = [pc EXCEPT ![r] = "done"]
            /\ UNCHANGED <<sel, request>>
    /\ result' = [result EXCEPT ![r] = Returned(ValidRequest(data))]
    /\ notify_vnc_status(ConnectReply(ValidRequest(data)), r, "handle_vnc_connect")
    /\ UNCHANGED <<envVars, pygameVars, apiVars, client_env_vars, popen_args, vnc_process, connected, procs,
                   waiting, mon, window_shown>>

\* api_servers, POST: the JSON body is saved as it is
api_servers_post(server_data) ==
    /\ saved_servers' = save_server(saved_servers, server_data)
    /\ UNCHANGED <<envVars, pygameVars, apiVars, launchVars, vnc_process, connected, procs, pc, sel, waiting,
                   result, mon, window_shown, events>>

\* api_servers, DELETE
api_servers_delete(server_data) ==
    /\ saved_servers' = delete_server(saved_servers, server_data)
    /\ UNCHANGED <<envVars, pygameVars, apiVars, launchVars, vnc_process, connected, procs, pc, sel, waiting,
                   result, mon, window_shown, events>>

\* api_vnc_clients: a fresh CLIVNCConnector answers with its list
api_vnc_clients ==
    /\ vnc_clients' = [status |-> "success",
                       clients |-> get_available_clients(system, installed)]
    /\ UNCHANGED <<envVars, pygameVars, launchVars, cliVars, settings, settings_response>>

\* ConfigManager.is_autostart_supported
is_autostart_supported(sys) == sys = "Windows"

\* ConfigManager.save_settings: the submitted keys replace the stored ones, then
\* the configuration is written out
save_settings(stored, submitted) == [auto_run |-> submitted.auto_run]

\* an HTTP response: its status code and its JSON body
Response(code, json) == [code |-> code, json |-> json]

\* the value of settings_response before the first call of /api/settings
NoResponse == Response(0, [none |-> TRUE])

\* api_settings, GET: the stored settings
api_settings_get ==
    /\ settings_response' = Response(200, settings)
    /\ UNCHANGED <<envVars, pygameVars, launchVars, cliVars, vnc_clients, settings>>

\* api_settings, POST: the name autostart_supported is a local variable of
\* index() and is not defined in api_settings, nor in setup_routes, nor in the
\* module, so evaluating the condition raises NameError; Flask answers an
\* unhandled exception with 500 Internal Server Error
api_settings_post(submitted) ==
    /\ settings_response' = Response(500, [error |-> "NameError"])
    /\ UNCHANGED <<envVars, pygameVars, launchVars, cliVars, vnc_clients, settings>>

\* handle_vnc_disconnect: vnc_callback(None) runs CLIVNCHandler.disconnect_vnc on
\* the socket handler's thread
handle_vnc_disconnect(d) ==
    /\ NextIdle(d, DReqs)
    /\ pc' = [pc EXCEPT ![d] = "d1"]
    /\ UNCHANGED <<envVars, pygameVars, apiVars, launchVars, saved_servers, vnc_process, connected, procs, sel, waiting, result, mon,
                   window_shown, events>>

(***************************************************************************)
(* CLIVNCConnector.disconnect, run by a connect worker (first statement of *)
(* connect) or by a disconnect request.                                    *)
(***************************************************************************)
\* where the caller continues when disconnect() returns
AfterDisconnect(t) == IF t \in Reqs THEN "launch" ELSE "show"

\* self.connected = False; if self.vnc_process: self.vnc_process.terminate(),
\* then self.vnc_process.wait(timeout=3) starts
disconnect_terminate(t) ==
    /\ pc[t] = "d1"
    /\ connected' = FALSE
    /\ IF vnc_process # 0
       THEN /\ procs' = IF procs[vnc_process].state = "running"
                        THEN [procs EXCEPT ![vnc_process].state = "terminating"]
                        ELSE procs
            /\ waiting' = [waiting EXCEPT ![t] = vnc_process]
            /\ pc' = [pc EXCEPT ![t] = "d2"]
       ELSE /\ pc' = [pc EXCEPT ![t] = "d3"]
            /\ UNCHANGED <<procs, waiting>>
    /\ UNCHANGED <<envVars, pygameVars, apiVars, launchVars, saved_servers, vnc_process, sel, result, mon, window_shown, events>>

\* disconnect_wait with the force-kill after the timeout left out
disconnect_wait_no_kill(t) ==
    /\ pc[t] = "d2"
    /\ vnc_process' = 0
    /\ waiting' = [waiting EXCEPT ![t] = 0]
    /\ pc' = [pc EXCEPT ![t] = "d3"]
    /\ UNCHANGED <<envVars, pygameVars, apiVars, launchVars, saved_servers, connected, procs, sel, result, mon, window_shown, events>>

\* wait(timeout=3) returns because the process has ended, or raises
\* TimeoutExpired and self.vnc_process.kill() follows (the attribute is read
\* again; None raises AttributeError, which is swallowed);
\* then self.vnc_process = None
disconnect_wait(t) ==
    /\ pc[t] = "d2"
    /\ procs' = IF Alive(waiting[t]) /\ vnc_process # 0
                THEN Ended(procs, vnc_process, "kill")
                ELSE procs
    /\ vnc_process' = 0
    /\ waiting' = [waiting EXCEPT ![t] = 0]
    /\ pc' = [pc EXCEPT ![t] = "d3"]
    /\ UNCHANGED <<envVars, pygameVars, apiVars, launchVars, saved_servers, connected, sel, result, mon, window_shown, events>>

\* the process table after every process whose executable the sweep names has
\* been killed
Sweep(table) ==
    [p \in DOMAIN table |->
        IF SweepCovers(system, table[p].exe) THEN Ended(table, p, "sweep")[p] ELSE table[p]]

\* self._kill_vnc_processes(), then disconnect returns
kill_vnc_processes(t) ==
    /\ pc[t] = "d3"
    /\ procs' = Sweep(procs)
    /\ pc' = [pc EXCEPT ![t] = AfterDisconnect(t)]
    /\ UNCHANGED <<envVars, pygameVars, apiVars, launchVars, saved_servers, vnc_process, connected, sel, waiting, result, mon,
                   window_shown, events>>

(***************************************************************************)
(* CLIVNCConnector.disconnect when an operating-system call fails.  Every  *)
(* call sits inside a try block whose handler prints and goes on.          *)
(***************************************************************************)
\* disconnect_terminate_raises with the exception leaving disconnect(): the
\* statements after the try block, self.vnc_process = None among them, are skipped
disconnect_terminate_propagates(t) ==
    /\ pc[t] = "d1"
    /\ vnc_process # 0
    /\ connected' = FALSE
    /\ pc' = [pc EXCEPT ![t] = "d3"]
    /\ UNCHANGED <<envVars, pygameVars, apiVars, launchVars, saved_servers, vnc_process, procs, sel, waiting, result, mon,
                   window_shown, events>>

\* self.connected = False; self.vnc_process.terminate() raises: `except Exception`
\* prints, the wait and the kill are skipped, then self.vnc_process = None
disconnect_terminate_raises(t) ==
    /\ pc[t] = "d1"
    /\ vnc_process # 0
    /\ connected' = FALSE
    /\ vnc_process' = 0
    /\ pc' = [pc EXCEPT ![t] = "d3"]
    /\ UNCHANGED <<envVars, pygameVars, apiVars, launchVars, saved_servers, procs, sel, waiting, result, mon, window_shown, events>>

\* wait(timeout=3) raises TimeoutExpired and self.vnc_process.kill() raises:
\* `except Exception` prints, then self.vnc_process = None
disconnect_kill_raises(t) ==
    /\ pc[t] = "d2"
    /\ Alive(waiting[t])
    /\ vnc_process # 0
    /\ vnc_process' = 0
    /\ waiting' = [waiting EXCEPT ![t] = 0]
    /\ pc' = [pc EXCEPT ![t] = "d3"]
    /\ UNCHANGED <<envVars, pygameVars, apiVars, launchVars, saved_servers, connected, procs, sel, result, mon, window_shown, events>>

\* _kill_vnc_processes when subprocess.run raises for every name (no taskkill /
\* pkill on the host): each `except Exception: pass` goes on, nothing is killed
kill_vnc_processes_raises(t) ==
    /\ pc[t] = "d3"
    /\ pc' = [pc EXCEPT ![t] = AfterDisconnect(t)]
    /\ UNCHANGED <<envVars, pygameVars, apiVars, launchVars, saved_servers, vnc_process, connected, procs, sel, waiting, result, mon,
                   window_shown, events>>

(***************************************************************************)
(* CLIVNCConnector.connect after its disconnect(), run by the connect      *)
(* worker (CLIVNCHandler._connect_vnc_thread).                             *)
(***************************************************************************)
\* the child process Popen creates for worker r
NewProcess(r, c) ==
    [state |-> "running", exe |-> c.exe, by |-> r, how |-> None, ingrace |-> FALSE]

\* vnc_command = self._get_vnc_command(...); `if not vnc_command: return False`;
\* env is os.environ plus self.client_env_vars;
\* self.vnc_process = subprocess.Popen(vnc_command, ..., env=env), which starts a
\* child process or raises OSError (`return False` through the except clause).
\* On False, _connect_vnc_thread publishes 'failed'.
connect_launch(r, ok) ==
    /\ pc[r] = "launch"
    /\ client_env_vars' =
           set_client_env_vars(system, installed, sel[r], request[r], client_env_vars)
    /\ LET c == get_vnc_command(system, installed, sel[r])
       IN popen_args' = IF c = NoCmd THEN popen_args
                        ELSE [client |-> c.client,
                              cmd    |-> command(system, installed, c, request[r]),
                              env    |-> child_env(client_env_vars')]
    /\ LET c == get_vnc_command(system, installed, sel[r])
       IN IF c # NoCmd /\ ok
          THEN /\ procs' = Append(procs, NewProcess(r, c))
               /\ vnc_process' = Len(procs) + 1
               /\ pc' = [pc EXCEPT ![r] = "grace"]
               /\ UNCHANGED events
          ELSE /\ notify_vnc_status("failed", r, "_connect_vnc_thread")
               /\ pc' = [pc EXCEPT ![r] = "done"]
               /\ UNCHANGED <<procs, vnc_process>>
    /\ sel' = [sel EXCEPT ![r] = None]
    /\ UNCHANGED <<envVars, pygameVars, apiVars, request, saved_servers, connected, waiting, result, mon,
                   window_shown>>

\* connect_poll refusing to confirm once any attempt has failed
connect_poll_sticky(r) ==
    /\ pc[r] = "grace"
    /\ IF vnc_process # 0 /\ PollIsNone(vnc_process)
          /\ ~\E i \in DOMAIN events : events[i].by = "_connect_vnc_thread"
                                       /\ events[i].status = "failed"
       THEN /\ connected' = TRUE
            /\ mon' = [mon EXCEPT ![r] = "run"]
            /\ pc' = [pc EXCEPT ![r] = "hide"]
            /\ UNCHANGED events
       ELSE /\ notify_vnc_status("failed", r, "_connect_vnc_thread")
            /\ pc' = [pc EXCEPT ![r] = "done"]
            /\ UNCHANGED <<connected, mon>>
    /\ UNCHANGED <<envVars, pygameVars, apiVars, launchVars, saved_servers, vnc_process, procs, sel, waiting, result, window_shown>>

\* time.sleep(2); `if self.vnc_process.poll() is None:` -- the attribute is read
\* again after the sleep (None raises AttributeError -> `return False`).
\* Alive: self.connected = True, the _monitor_vnc_client thread is started,
\* return True.  Otherwise return False and 'failed' is published.
connect_poll(r) ==
    /\ pc[r] = "grace"
    /\ IF vnc_process # 0 /\ PollIsNone(vnc_process)
       THEN /\ connected' = TRUE
            /\ mon' = [mon EXCEPT ![r] = "run"]
            /\ pc' = [pc EXCEPT ![r] = "hide"]
            /\ UNCHANGED events
       ELSE /\ notify_vnc_status("failed", r, "_connect_vnc_thread")
            /\ pc' = [pc EXCEPT ![r] = "done"]
            /\ UNCHANGED <<connected, mon>>
    /\ UNCHANGED <<envVars, pygameVars, apiVars, launchVars, saved_servers, vnc_process, procs, sel, waiting, result, window_shown>>

\* _connect_vnc_thread on success: self.app.hide_window();
\* self.app.web_server.notify_vnc_status('connected')
connect_thread_connected(r) ==
    /\ pc[r] = "hide"
    /\ window_shown' = FALSE
    /\ notify_vnc_status("connected", r, "_connect_vnc_thread")
    /\ pc' = [pc EXCEPT ![r] = "hmon"]
    /\ UNCHANGED <<envVars, pygameVars, apiVars, launchVars, saved_servers, vnc_process, connected, procs, sel, waiting, result, mon>>

\* CLIVNCConnector.is_connected(): False when not connected or no handle; when
\* the process has ended it sets self.connected = False and returns False
is_connected == connected /\ vnc_process # 0 /\ PollIsNone(vnc_process)

\* the value of self.connected after an is_connected() or a monitor poll
ConnectedAfterPoll == IF connected /\ vnc_process # 0 THEN PollIsNone(vnc_process) ELSE connected

\* _monitor_vnc_connection: `while self.app.vnc_connector.is_connected():
\* time.sleep(2)`
monitor_vnc_connection(r) ==
    /\ pc[r] = "hmon"
    /\ connected' = ConnectedAfterPoll
    /\ pc' = [pc EXCEPT ![r] = IF is_connected THEN "hmon" ELSE "show"]
    /\ UNCHANGED <<envVars, pygameVars, apiVars, launchVars, saved_servers, vnc_process, procs, sel, waiting, result, mon,
                   window_shown, events>>

\* _monitor_vnc_connection after the loop: self.app.show_window();
\* notify_vnc_status('disconnected')
monitor_connection_ended(r) ==
    /\ pc[r] = "show"
    /\ r \in Reqs
    /\ window_shown' = TRUE
    /\ notify_vnc_status("disconnected", r, "_monitor_vnc_connection")
    /\ pc' = [pc EXCEPT ![r] = "done"]
    /\ UNCHANGED <<envVars, pygameVars, apiVars, launchVars, saved_servers, vnc_process, connected, procs, sel, waiting, result, mon>>

\* _monitor_vnc_client: `while self.connected and self.vnc_process:` -- when the
\* process has ended: self.connected = False; break -- else time.sleep(1)
monitor_vnc_client(r) ==
    /\ mon[r] = "run"
    /\ connected' = ConnectedAfterPoll
    /\ mon' = [mon EXCEPT ![r] = IF is_connected THEN "run" ELSE "done"]
    /\ UNCHANGED <<envVars, pygameVars, apiVars, launchVars, saved_servers, vnc_process, procs, pc, sel, waiting, result,
                   window_shown, events>>

(***************************************************************************)
(* CLIVNCHandler.disconnect_vnc after connector.disconnect(), and the      *)
(* reply of handle_vnc_disconnect.                                         *)
(***************************************************************************)
\* disconnect_vnc reporting an error when the connector never had a process
disconnect_vnc_strict(d) ==
    /\ pc[d] = "show"
    /\ d \in DReqs \cup AReqs
    /\ window_shown' = TRUE
    /\ events' = events \o << Event(IF procs = << >> THEN "failed" ELSE "disconnected",
                                    d, "disconnect_vnc"),
                              Event("disconnected", d, "handle_vnc_disconnect") >>
    /\ result' = [result EXCEPT ![d] = Returned(procs # << >>)]
    /\ pc' = [pc EXCEPT ![d] = "done"]
    /\ UNCHANGED <<envVars, pygameVars, apiVars, launchVars, saved_servers, vnc_process, connected, procs, sel, waiting, mon>>

\* disconnect_vnc flipping the window instead of showing it
disconnect_vnc_toggle(d) ==
    /\ pc[d] = "show"
    /\ d \in DReqs \cup AReqs
    /\ window_shown' = ~window_shown
    /\ events' = events \o << Event("disconnected", d, "disconnect_vnc"),
                              Event("disconnected", d, "handle_vnc_disconnect") >>
    /\ result' = [result EXCEPT ![d] = Returned(TRUE)]
    /\ pc' = [pc EXCEPT ![d] = "done"]
    /\ UNCHANGED <<envVars, pygameVars, apiVars, launchVars, saved_servers, vnc_process, connected, procs, sel, waiting, mon>>

\* self.app.show_window(); notify_vnc_status('disconnected'); return True;
\* then handle_vnc_disconnect: emit('vnc_status', {'status': 'disconnected'})
disconnect_vnc(d) ==
    /\ pc[d] = "show"
    /\ d \in DReqs \cup AReqs
    /\ window_shown' = TRUE
    /\ events' = events \o << Event("disconnected", d, "disconnect_vnc"),
                              Event("disconnected", d, "handle_vnc_disconnect") >>
    /\ result' = [result EXCEPT ![d] = Returned(TRUE)]
    /\ pc' = [pc EXCEPT ![d] = "done"]
    /\ UNCHANGED <<envVars, pygameVars, apiVars, launchVars, saved_servers, vnc_process, connected, procs, sel, waiting, mon>>

(***************************************************************************)
(* Application shutdown (gui_app.py, main.py).  When the main thread       *)
(* leaves root.mainloop() the interpreter exits and its daemon threads     *)
(* end; the child processes are not children of a process group that is    *)
(* signalled, so they keep running.                                        *)
(***************************************************************************)
\* VNCQRApp.exit_app, bound to <Escape>: the class body defines exit_app twice and
\* the later definition is the method: self.root.quit(); self.root.destroy()
exit_app ==
    /\ pc[App] = "idle"
    /\ pc' = [pc EXCEPT ![App] = "exited"]
    /\ window_shown' = FALSE
    /\ UNCHANGED <<envVars, pygameVars, apiVars, launchVars, saved_servers, vnc_process, connected, procs, sel, waiting, result, mon,
                   events>>

\* shutdown_application, the callback of the 'shutdown_server' socket message:
\* app.root.quit(); app.root.destroy(); sys.exit(0)
shutdown_application ==
    /\ pc[App] = "idle"
    /\ pc' = [pc EXCEPT ![App] = "exited"]
    /\ window_shown' = FALSE
    /\ UNCHANGED <<envVars, pygameVars, apiVars, launchVars, saved_servers, vnc_process, connected, procs, sel, waiting, result, mon,
                   events>>

(***************************************************************************)
(* The Pygame application (pygame_gui_app.py, gui_vnc_handler.py,          *)
(* pygame_vnc_connector.py).  Its threads are the connect worker of each   *)
(* vnc_connect request, the connection thread each connect call starts,    *)
(* the socket handler of each vnc_disconnect request, and the main loop.   *)
(***************************************************************************)
\* a pyVNC Client object as the connector sees it: how often its start() was
\* called, whether stop() was called, and whether its 'screen' is set
NewClient == [started |-> 0, stopped |-> FALSE, screen |-> FALSE]

\* _check_connection_status
check_connection_status == vnc_client # 0 /\ clients[vnc_client].screen

\* connection_thread.is_alive() for the thread of connect call r
ThreadAlive(r) == cthread[r] \in {"run", "loop"}

\* the Client objects after PygameVNCConnector.disconnect stopped object c
Stopped(cl, c) == IF c = 0 THEN cl ELSE [cl EXCEPT ![c].stopped = TRUE]

\* the process is alive: the main loop has neither left nor died
Running == ppc[App] \notin {"exited", "raised"}

\* PygameVNCConnector.disconnect: stop the client, wait for the threads with a
\* timeout, drop the client
connector_disconnect ==
    /\ connector_connected' = FALSE
    /\ clients' = Stopped(clients, vnc_client)
    /\ vnc_client' = 0
    /\ UNCHANGED <<connection_started, connection_attempts, connection_thread, cthread,
                   client_of>>

\* VNCHandler.handle_vnc_request with complete connection data: start the
\* connect worker, return True; the socket handler answers 'connected'
pygame_handle_vnc_request(r) ==
    /\ Running
    /\ ppc[r] = "idle" /\ \A u \in Reqs : u < r => ppc[u] # "idle"
    /\ ppc' = [ppc EXCEPT ![r] = "connect"]
    /\ pygame_events' = Append(pygame_events, Event("connected", r, "handle_vnc_connect"))
    /\ UNCHANGED <<envVars, launchVars, apiVars, cliVars, Client, connectorVars, vnc_mode,
                   depth>>

\* PygameVNCConnector.connect up to the wait loop of _try_vnc_approaches:
\* disconnect(), a new Client object, a new connection thread
pygame_connect(r) ==
    /\ Running
    /\ ppc[r] = "connect"
    /\ IF Client
       THEN /\ connector_connected' = FALSE
            /\ clients' = Append(Stopped(clients, vnc_client), NewClient)
            /\ vnc_client' = Len(clients) + 1
            /\ client_of' = [client_of EXCEPT ![r] = Len(clients) + 1]
            /\ connection_thread' = r
            /\ cthread' = [cthread EXCEPT ![r] = "run"]
            /\ ppc' = [ppc EXCEPT ![r] = "wait"]
            /\ UNCHANGED <<connection_started, connection_attempts, pygame_events>>
       ELSE /\ ppc' = [ppc EXCEPT ![r] = "done"]
            /\ pygame_events' =
                   Append(pygame_events, Event("failed", r, "_connect_vnc_thread"))
            /\ UNCHANGED connectorVars
    /\ UNCHANGED <<envVars, launchVars, apiVars, cliVars, Client, vnc_mode, depth>>

\* the wait loop of _try_vnc_approaches and the return of connect: the status
\* check succeeds, or the ten seconds pass and the worker reports 'failed'
try_vnc_approaches(r) ==
    /\ Running
    /\ ppc[r] = "wait"
    /\ IF check_connection_status
       THEN /\ connector_connected' = TRUE
            /\ ppc' = [ppc EXCEPT ![r] = "confirm"]
            /\ UNCHANGED pygame_events
       ELSE /\ ppc' = [ppc EXCEPT ![r] = "done"]
            /\ pygame_events' =
                   Append(pygame_events, Event("failed", r, "_connect_vnc_thread"))
            /\ UNCHANGED connector_connected
    /\ UNCHANGED <<envVars, launchVars, apiVars, cliVars, Client, vnc_client, clients,
                   connection_started, connection_attempts, connection_thread, cthread,
                   client_of, vnc_mode, depth>>

\* PygameVNCConnector.is_connected: its return value
is_connected_value ==
    /\ connector_connected /\ vnc_client # 0
    /\ connection_thread # 0 => ThreadAlive(connection_thread)
    /\ check_connection_status

\* PygameVNCConnector.is_connected: self.connected after the call
is_connected_connected ==
    IF /\ connector_connected /\ vnc_client # 0
       /\ connection_thread # 0 /\ ~ThreadAlive(connection_thread)
    THEN FALSE ELSE connector_connected

\* the confirmation loop of _connect_vnc_thread: one check of is_connected; on
\* success switch_to_vnc_mode and two 'connected' messages, else another check
\* or, after fifteen seconds, 'failed'
connect_vnc_thread(r, timed_out) ==
    /\ Running
    /\ ppc[r] = "confirm"
    /\ connector_connected' = is_connected_connected
    /\ IF is_connected_value
       THEN /\ vnc_mode' = TRUE
            /\ pygame_events' = pygame_events
                   \o << Event("connected", r, "switch_to_vnc_mode"),
                         Event("connected", r, "_connect_vnc_thread") >>
            /\ ppc' = [ppc EXCEPT ![r] = "done"]
       ELSE /\ UNCHANGED vnc_mode
            /\ pygame_events' =
                   IF timed_out
                   THEN Append(pygame_events, Event("failed", r, "_connect_vnc_thread"))
                   ELSE pygame_events
            /\ ppc' = [ppc EXCEPT ![r] = IF timed_out THEN "done" ELSE "confirm"]
    /\ UNCHANGED <<envVars, launchVars, apiVars, cliVars, Client, vnc_client, clients,
                   connection_started, connection_attempts, connection_thread, cthread,
                   client_of, depth>>

\* one pass of the loop of _monitor_vnc_startup, run by the connection thread of
\* connect call r: start the client unless _connection_started exists, then
\* check the status; an exception counts as a failed attempt
StartupAttempt(r, attempts) ==
    IF ~connection_started /\ vnc_client = 0
    THEN /\ connection_attempts' = attempts + 1
         /\ cthread' = [cthread EXCEPT ![r] = "loop"]
         /\ UNCHANGED <<clients, connection_started, connector_connected>>
    ELSE /\ clients' = IF connection_started THEN clients
                       ELSE [clients EXCEPT ![vnc_client].started = @ + 1]
         /\ connection_started' = TRUE
         /\ IF check_connection_status
            THEN /\ connector_connected' = TRUE
                 /\ connection_attempts' = attempts
                 /\ cthread' = [cthread EXCEPT ![r] = "done"]
            ELSE /\ connection_attempts' = attempts + 1
                 /\ cthread' = [cthread EXCEPT ![r] = "loop"]
                 /\ UNCHANGED connector_connected

\* _run_vnc_client_nonblocking and _start_vnc_with_timeout, up to the first
\* sleep of _monitor_vnc_startup
run_vnc_client_nonblocking(r) ==
    /\ Running
    /\ cthread[r] = "run"
    /\ IF vnc_client = 0
       THEN /\ cthread' = [cthread EXCEPT ![r] = "done"]
            /\ UNCHANGED <<clients, connection_started, connector_connected,
                           connection_attempts>>
       ELSE StartupAttempt(r, 0)
    /\ UNCHANGED <<envVars, launchVars, apiVars, cliVars, Client, vnc_client,
                   connection_thread, client_of, vnc_mode, ppc, depth, pygame_events>>

\* _monitor_vnc_startup after a sleep: the next pass, or the end of the loop
monitor_vnc_startup(r) ==
    /\ Running
    /\ cthread[r] = "loop"
    /\ IF connection_attempts < max_attempts
       THEN StartupAttempt(r, connection_attempts)
       ELSE /\ connector_connected' = FALSE
            /\ cthread' = [cthread EXCEPT ![r] = "done"]
            /\ UNCHANGED <<clients, connection_started, connection_attempts>>
    /\ UNCHANGED <<envVars, launchVars, apiVars, cliVars, Client, vnc_client,
                   connection_thread, client_of, vnc_mode, ppc, depth, pygame_events>>

\* the VNC server answers a client that was started: pyVNC sets the attributes
\* _check_connection_status looks at
server_answers(c) ==
    /\ Running
    /\ c \in DOMAIN clients
    /\ clients[c].started > 0 /\ ~clients[c].stopped /\ ~clients[c].screen
    /\ clients' = [clients EXCEPT ![c].screen = TRUE]
    /\ UNCHANGED <<envVars, launchVars, apiVars, cliVars, Client, vnc_client,
                   connector_connected, connection_started, connection_attempts,
                   connection_thread, cthread, client_of, vnc_mode, ppc, depth,
                   pygame_events>>

\* handle_vnc_disconnect of the web server: vnc_callback(None) is
\* VNCHandler.handle_vnc_request(None), which calls disconnect_vnc
pygame_handle_vnc_disconnect(d) ==
    /\ Running
    /\ ppc[d] = "idle"
    /\ ppc' = [ppc EXCEPT ![d] = "call"]
    /\ UNCHANGED <<envVars, launchVars, apiVars, cliVars, Client, connectorVars, vnc_mode,
                   depth, pygame_events>>

\* handle_events, KEYDOWN K_ESCAPE: in VNC mode switch_to_qr_mode, which sets
\* vnc_mode and calls VNCHandler.disconnect_vnc; otherwise running = False, and
\* run() goes on to cleanup(): vnc_connector.disconnect(), pygame.quit(), sys.exit()
handle_events_escape ==
    /\ ppc[App] = "idle"
    /\ IF vnc_mode
       THEN /\ vnc_mode' = FALSE
            /\ ppc' = [ppc EXCEPT ![App] = "call"]
            /\ UNCHANGED connectorVars
       ELSE /\ connector_disconnect
            /\ ppc' = [ppc EXCEPT ![App] = "exited"]
            /\ UNCHANGED vnc_mode
    /\ UNCHANGED <<envVars, launchVars, apiVars, cliVars, Client, depth, pygame_events>>

\* VNCHandler.disconnect_vnc up to its call of app.switch_to_qr_mode, and
\* switch_to_qr_mode up to its call of vnc_handler.disconnect_vnc: the connector
\* is disconnected, vnc_mode is cleared, and one more disconnect_vnc frame opens.
\* The statements of disconnect_vnc after the call (status text, vnc_mode,
\* notify_vnc_status('disconnected'), return True) run when switch_to_qr_mode
\* returns, that is, when the disconnect_vnc it called has returned.
pygame_disconnect_vnc(t) ==
    /\ Running
    /\ ppc[t] = "call"
    /\ depth[t] < RecursionLimit
    /\ connector_disconnect
    /\ vnc_mode' = FALSE
    /\ depth' = [depth EXCEPT ![t] = @ + 1]
    /\ UNCHANGED <<envVars, launchVars, apiVars, cliVars, Client, ppc, pygame_events>>

\* the interpreter's recursion limit is reached: RecursionError leaves every
\* open frame of disconnect_vnc and switch_to_qr_mode (the call of
\* switch_to_qr_mode is outside the try of disconnect_vnc) and then the socket
\* handler, or the main loop
RecursionError(t) ==
    /\ Running
    /\ ppc[t] = "call"
    /\ depth[t] = RecursionLimit
    /\ depth' = [depth EXCEPT ![t] = 0]
    /\ ppc' = [ppc EXCEPT ![t] = "raised"]
    /\ UNCHANGED <<envVars, launchVars, apiVars, cliVars, Client, connectorVars, vnc_mode,
                   pygame_events>>

\* PygameVNCConnector.__init__ and PygameVNCQRApp.__init__, no request yet
InitPygame ==
    /\ vnc_client = 0
    /\ clients = << >>
    /\ connector_connected = FALSE
    /\ connection_started = FALSE
    /\ connection_attempts = 0
    /\ connection_thread = 0
    /\ cthread = [r \in Reqs |-> "none"]
    /\ client_of = [r \in Reqs |-> 0]
    /\ vnc_mode = FALSE
    /\ ppc = [t \in Threads |-> "idle"]
    /\ depth = [t \in Threads |-> 0]
    /\ pygame_events = << >>

(***************************************************************************)
(* Specification: any number of requests in flight at once.                *)
(***************************************************************************)
\* the Tkinter application after construction: CLIVNCConnector.__init__, no
\* thread started, no call of the web API yet
InitTk ==
    /\ request = [r \in Reqs |-> NoRequest]
    /\ client_env_vars = NoAttribute
    /\ popen_args = NoPopen
    /\ saved_servers = << >>
    /\ vnc_clients = NoClients
    /\ settings = [auto_run |-> FALSE]
    /\ settings_response = NoResponse
    /\ vnc_process = 0
    /\ connected = FALSE
    /\ procs = << >>
    /\ pc = [t \in Threads |-> "idle"]
    /\ sel = [r \in Reqs |-> None]
    /\ waiting = [t \in Threads |-> 0]
    /\ result = [t \in Threads |-> None]
    /\ mon = [r \in Reqs |-> "off"]
    /\ window_shown = TRUE
    /\ events = << >>

\* the program after construction
InitProgram ==
    /\ InitTk
    /\ Client = TRUE
    /\ InitPygame

Init ==
    /\ system \in Systems
    /\ installed \in {S \in SUBSET HostFiles(system) : Cardinality(S) <= MaxInstalled}
    /\ InitProgram

\* the steps of threads that are already running, and of the child processes
Step ==
    \/ \E t \in Threads : disconnect_terminate(t)
    \/ \E t \in Threads : disconnect_wait(t)
    \/ \E t \in Threads : kill_vnc_processes(t)
    \/ \E r \in Reqs, ok \in BOOLEAN : connect_launch(r, ok)
    \/ \E r \in Reqs : connect_poll(r)
    \/ \E r \in Reqs : connect_thread_connected(r)
    \/ \E r \in Reqs : monitor_vnc_connection(r)
    \/ \E r \in Reqs : monitor_connection_ended(r)
    \/ \E r \in Reqs : monitor_vnc_client(r)
    \/ \E d \in DReqs : disconnect_vnc(d)
    \/ \E p \in 1..MaxReq : ProcExit(p)

Next ==
    \/ \E r \in Reqs, data \in ConnectData : handle_vnc_connect(r, data)
    \/ \E d \in DReqs : handle_vnc_disconnect(d)
    \/ Step

Spec == Init /\ [][Next]_vars

(***************************************************************************)
(* Specification: requests are processed one at a time.  A new request is  *)
(* accepted only when no connect worker is between its acceptance and its  *)
(* verdict and no disconnect request is in progress.  The monitor loops of *)
(* earlier sessions keep running.                                          *)
(***************************************************************************)
\* the thread is inside connect() / disconnect_vnc(), or is announcing the verdict
InFlight(t) ==
    \/ pc[t] \in {"d1", "d2", "d3", "launch", "grace", "hide"}
    \/ t \in DReqs \cup AReqs /\ pc[t] = "show"

Quiet == \A t \in Threads : ~InFlight(t)

NextSeq ==
    \/ \E r \in Reqs, data \in ConnectData : Quiet /\ handle_vnc_connect(r, data)
    \/ \E d \in DReqs : Quiet /\ handle_vnc_disconnect(d)
    \/ Step

SpecSeq == Init /\ [][NextSeq]_vars

(***************************************************************************)
(* Specification: one connect request, and disconnect requests that arrive *)
(* while its worker is between acceptance and verdict.                     *)
(***************************************************************************)
\* the worker has been accepted and connect() has not returned yet
Connecting(r) == pc[r] \in {"d1", "d2", "d3", "launch", "grace"}

NextCancel ==
    \/ \E data \in ConnectData : handle_vnc_connect(1, data)
    \/ \E d \in DReqs : (\E r \in Reqs : Connecting(r)) /\ handle_vnc_disconnect(d)
    \/ Step

SpecCancel == Init /\ [][NextCancel]_vars

(***************************************************************************)
(* Specification: client resolution.  One connect request, on a host with  *)
(* any set of up to MaxFiles files, runs up to its subprocess.Popen call.  *)
(***************************************************************************)
InitResolve ==
    /\ system \in Systems
    /\ installed \in {S \in SUBSET HostFiles(system) : Cardinality(S) <= MaxFiles}
    /\ InitProgram

NextResolve ==
    \/ \E data \in ResolveData : handle_vnc_connect(1, data)
    \/ disconnect_terminate(1)
    \/ kill_vnc_processes(1)
    \/ \E ok \in BOOLEAN : connect_launch(1, ok)

SpecResolve == InitResolve /\ [][NextResolve]_vars

(***************************************************************************)
(* Specification: requests one at a time, until the application is shut    *)
(* down from the keyboard or from the web interface.                       *)
(***************************************************************************)
NextExit ==
    \/ pc[App] = "idle" /\ NextSeq
    \/ exit_app
    \/ shutdown_application

SpecExit == Init /\ [][NextExit]_vars

(***************************************************************************)
(* Specification: the disconnect operation by itself.  Connect requests    *)
(* run with any interleaving until the first disconnect request arrives;   *)
(* from then on only the disconnect requests and the child processes step  *)
(* (every other thread is in a sleep), a second disconnect request follows *)
(* the first, and the operating-system calls of disconnect() may fail.     *)
(***************************************************************************)
DiscStarted == \E d \in DReqs \cup AReqs : pc[d] # "idle"

\* the steps of the disconnect requests (which imply DiscStarted) and of the
\* child processes
DiscStep ==
    \/ \E d \in DReqs \cup AReqs : disconnect_terminate(d)
    \/ \E d \in DReqs \cup AReqs : disconnect_terminate_raises(d)
    \/ \E d \in DReqs \cup AReqs : disconnect_wait(d)
    \/ \E d \in DReqs \cup AReqs : disconnect_kill_raises(d)
    \/ \E d \in DReqs \cup AReqs : kill_vnc_processes(d)
    \/ \E d \in DReqs \cup AReqs : kill_vnc_processes_raises(d)
    \/ \E d \in DReqs \cup AReqs : disconnect_vnc(d)
    \/ \E p \in 1..MaxReq : ProcExit(p)

NextDisc ==
    \/ \E r \in Reqs, data \in ConnectData : ~DiscStarted /\ handle_vnc_connect(r, data)
    \/ ~DiscStarted /\ Step
    \/ \E d \in DReqs : handle_vnc_disconnect(d)
    \/ \E a \in AReqs : (\A d \in DReqs : pc[d] = "done") /\ handle_vnc_disconnect(a)
    \/ DiscStep

SpecDisc == Init /\ [][NextDisc]_vars

(***************************************************************************)
(* Specification: connect requests with fair scheduling.  A thread that is *)
(* sleeping, waiting for a child with a timeout, or ready to run does take *)
(* its next step: every sleep and every timed wait in the code is finite.  *)
(* Nothing makes a request arrive or a child process end by itself.        *)
(***************************************************************************)
\* the next step of connect worker r, whichever it is
Run(r) ==
    \/ disconnect_terminate(r)
    \/ disconnect_wait(r)
    \/ kill_vnc_processes(r)
    \/ \E ok \in BOOLEAN : connect_launch(r, ok)
    \/ connect_poll(r)
    \/ connect_thread_connected(r)
    \/ monitor_vnc_connection(r)
    \/ monitor_connection_ended(r)

Fairness ==
    /\ \A r \in Reqs : WF_vars(Run(r))
    /\ \A r \in Reqs : WF_vars(monitor_vnc_client(r))

\* requests that pass validation and leave the choice of the client to the resolver
LiveData == {data \in ConnectData : ValidRequest(data) /\ data.client = None}

\* the Linux and macOS hosts: after the resolver, the steps of the threads are
\* the same on every platform
InitLive ==
    /\ system \in {"Linux", "Darwin"}
    /\ installed \in {S \in SUBSET HostFiles(system) : Cardinality(S) <= MaxInstalled}
    /\ InitProgram

NextLive ==
    \/ \E r \in Reqs, data \in LiveData : handle_vnc_connect(r, data)
    \/ \E r \in Reqs : Run(r)
    \/ \E r \in Reqs : monitor_vnc_client(r)
    \/ \E p \in 1..MaxReq : ProcExit(p)

SpecLive == InitLive /\ [][NextLive]_vars /\ Fairness

(***************************************************************************)
(* Specification: request validation.  Requests arrive one at a time with  *)
(* any combination of a missing host, a missing username and a port that   *)
(* is zero, negative or positive.                                          *)
(***************************************************************************)
\* the 'port' values of the validation specification
ValidatePorts == {-1, 0, 5901}

ValidateData == [ip : Hosts, port : ValidatePorts, username : Users,
                 password : SessionPasswords, client : {None}, save_server : {FALSE}]

NextValidate ==
    \/ \E r \in Reqs, data \in ValidateData : Quiet /\ handle_vnc_connect(r, data)
    \/ \E d \in DReqs : Quiet /\ handle_vnc_disconnect(d)
    \/ Step

SpecValidate == Init /\ [][NextValidate]_vars

(***************************************************************************)
(* Specification: the saved servers.  vnc_connect requests with and        *)
(* without 'save_server', and POST and DELETE calls of /api/servers, in    *)
(* any order; the connect workers are left aside.                          *)
(***************************************************************************)
ServerHosts == {"192.168.1.5"}
ServerPorts == {5900, 5901}

\* vnc_connect payloads of the saved-servers specification
SaveData == [ip : ServerHosts, port : ServerPorts, username : {"alice"},
             password : SessionPasswords, client : {None}, save_server : BOOLEAN]

\* JSON bodies of /api/servers calls: a server, with or without a 'password' key
PostData == [ip : ServerHosts, port : ServerPorts, username : {"alice", "bob"},
             password : {None, "secret"}]

NextServers ==
    \/ \E r \in Reqs, data \in SaveData : handle_vnc_connect(r, data)
    \/ \E server_data \in PostData : api_servers_post(server_data)
    \/ \E server_data \in PostData : api_servers_delete(server_data)

SpecServers == Init /\ [][NextServers]_vars

(***************************************************************************)
(* Specification: the child environment.  Requests arrive one at a time,   *)
(* each with its own password, with a client named or not.                 *)
(***************************************************************************)
EnvPasswords == {"secret", "hunter2"}

EnvData == [ip : {"192.168.1.5"}, port : {5901}, username : {"alice"},
            password : EnvPasswords, client : {None, "tigervnc"}, save_server : {FALSE}]

NextEnv ==
    \/ \E r \in Reqs, data \in EnvData : Quiet /\ handle_vnc_connect(r, data)
    \/ \E d \in DReqs : Quiet /\ handle_vnc_disconnect(d)
    \/ Step

SpecEnv == Init /\ [][NextEnv]_vars

(***************************************************************************)
(* Specification: the target port.  Requests arrive one at a time for one  *)
(* host, with the default port, a port above it and a port below it.       *)
(***************************************************************************)
\* the 'port' values of the target-port specification
PortPorts == {1, 5900, 5901}

PortData == [ip : {"192.168.1.5"}, port : PortPorts, username : {"alice"},
             password : SessionPasswords, client : {None}, save_server : {FALSE}]

NextPorts ==
    \/ \E r \in Reqs, data \in PortData : Quiet /\ handle_vnc_connect(r, data)
    \/ \E d \in DReqs : Quiet /\ handle_vnc_disconnect(d)
    \/ Step

SpecPorts == Init /\ [][NextPorts]_vars

(***************************************************************************)
(* Specification: the list of available clients.  One connect request      *)
(* naming a client runs up to its subprocess.Popen call, and the web page  *)
(* asks for the list of clients, on a host with any set of up to MaxFiles  *)
(* of the files the resolver and the list look at.                         *)
(***************************************************************************)
\* the client ids the list may report
ClientIds == LinuxKeys \cup WindowsKeys \cup {"macos_screen_sharing"}

ClientsData == [ip : {"192.168.1.5"}, port : {5901}, username : {"alice"},
                password : SessionPasswords, client : ClientIds, save_server : {FALSE}]

InitClients ==
    /\ system \in Systems
    /\ installed \in {S \in SUBSET (HostFiles(system) \cup ListedFiles(system)) :
                          Cardinality(S) <= MaxFiles}
    /\ InitProgram

NextClients ==
    \/ \E data \in ClientsData : handle_vnc_connect(1, data)
    \/ disconnect_terminate(1)
    \/ kill_vnc_processes(1)
    \/ \E ok \in BOOLEAN : connect_launch(1, ok)
    \/ api_vnc_clients

SpecClients == InitClients /\ [][NextClients]_vars

(***************************************************************************)
(* Specification: the Pygame application.  vnc_connect and vnc_disconnect  *)
(* requests and the Escape key, in any order, with pyVNC importable or not *)
(* and a VNC server that may or may not answer.                            *)
(***************************************************************************)
\* the threads that run VNCHandler.disconnect_vnc
Disconnecters == DReqs \cup {App}

InitPygameApp ==
    /\ system = "Linux"
    /\ installed = {}
    /\ InitTk
    /\ Client \in BOOLEAN
    /\ InitPygame

NextPygame ==
    \/ \E r \in Reqs : pygame_handle_vnc_request(r)
    \/ \E r \in Reqs : pygame_connect(r)
    \/ \E r \in Reqs : try_vnc_approaches(r)
    \/ \E r \in Reqs, timed_out \in BOOLEAN : connect_vnc_thread(r, timed_out)
    \/ \E r \in Reqs : run_vnc_client_nonblocking(r)
    \/ \E r \in Reqs : monitor_vnc_startup(r)
    \/ \E c \in 1..MaxReq : server_answers(c)
    \/ \E d \in DReqs : pygame_handle_vnc_disconnect(d)
    \/ handle_events_escape
    \/ \E t \in Disconnecters : pygame_disconnect_vnc(t)
    \/ \E t \in Disconnecters : RecursionError(t)

SpecPygame == InitPygameApp /\ [][NextPygame]_vars

(***************************************************************************)
(* Specification: the saved-server list alone.  save_server and            *)
(* delete_server calls (through POST and DELETE of /api/servers) in any    *)
(* order, one after the other, starting from the empty list.               *)
(***************************************************************************)
ConfigHosts == {"192.168.1.5", "192.168.1.6"}
ConfigPorts == {5900, 5901}

\* the servers of the calls: alice's with a password, bob's without a
\* 'password' key
ConfigData ==
    {ServerData(ip, port, "alice", "secret") : ip \in ConfigHosts, port \in ConfigPorts}
    \cup {ServerData(ip, port, "bob", None) : ip \in ConfigHosts, port \in ConfigPorts}

InitConfig ==
    /\ system = "Linux"
    /\ installed = {}
    /\ InitProgram

NextConfig ==
    \/ \E server_data \in ConfigData : api_servers_post(server_data)
    \/ \E server_data \in ConfigData : api_servers_delete(server_data)

SpecConfig == InitConfig /\ [][NextConfig]_vars

(***************************************************************************)
(* Specification: the HTTP API.  Calls of /api/settings, /api/servers and  *)
(* /api/vnc-clients in any order, one after the other, on every platform.  *)
(***************************************************************************)
\* JSON bodies of POST /api/settings
SettingsData == [auto_run : BOOLEAN]

InitApi ==
    /\ system \in Systems
    /\ installed = {}
    /\ InitProgram

NextApi ==
    \/ api_settings_get
    \/ \E submitted \in SettingsData : api_settings_post(submitted)
    \/ \E server_data \in PostData : api_servers_post(server_data)
    \/ \E server_data \in PostData : api_servers_delete(server_data)
    \/ api_vnc_clients

SpecApi == InitApi /\ [][NextApi]_vars

(***************************************************************************)
(* Properties.                                                             *)
(***************************************************************************)
\* the events sent by the threads of request t, oldest first
EventsOf(t) == SelectSeq(events, LAMBDA e : e.req = t)

\* the number of events of request t with the given status
Count(t, status) == Len(SelectSeq(events, LAMBDA e : e.req = t /\ e.status = status))

\* C1: in every reachable state at most one launched client process is alive,
\* and every live launched process is the one vnc_process refers to (no launched
\* process runs untracked), also when two connect requests run on two workers.
C1_SingleTrackedProcess ==
    \A p \in DOMAIN procs : Alive(p) => vnc_process = p

RegistryKeys == CASE system = "Windows" -> WindowsKeys
                  [] system = "Darwin"  -> {"macos_screen_sharing"}
                  [] OTHER              -> LinuxKeys

\* the client with this registry key is installed on the host
Locatable(key) == CASE system = "Windows" -> try_client(installed, key) # NoCmd
                    [] system = "Darwin"  -> TRUE
                    [] OTHER              -> which(installed, LinuxExecutable(key))

\* the selection of a request cannot be resolved: the client it names is not
\* installed, or it names none (or none the system knows) and none is installed
Unresolvable(selected) ==
    IF selected \in RegistryKeys THEN ~Locatable(selected)
    ELSE \A k \in RegistryKeys : ~Locatable(k)

\* C3: a connect request whose client selection cannot be resolved to an
\* installed executable ends with 'failed' published and no process launched.
C3_UnresolvableFails ==
    [][\A r \in Reqs :
         (pc[r] = "launch" /\ pc'[r] # "launch" /\ Unresolvable(sel[r])) =>
             /\ procs' = procs
             /\ events' = Append(events, Event("failed", r, "_connect_vnc_thread"))]_vars

\* C4: when the process a connect request launched exits by itself inside the
\* grace window, the worker of that request ends with 'failed': it never reaches
\* the success path (window hidden, 'connected', later 'disconnected').
C4_GraceExitIsFailed ==
    \A p \in DOMAIN procs :
        (procs[p].state = "dead" /\ procs[p].how = "exit" /\ procs[p].ingrace) =>
            LET r == procs[p].by
            IN /\ pc[r] \in {"grace", "done"}
               /\ Count(r, "disconnected") = 0
               /\ pc[r] = "done" => Count(r, "failed") = 1

\* the statuses of the events of request t, oldest first
Statuses(t) == [i \in DOMAIN EventsOf(t) |-> EventsOf(t)[i].status]

\* request r launched a process that outlived the grace window and then ended
\* by itself, and every thread of r has finished
SurvivedThenExited(r) ==
    /\ pc[r] = "done"
    /\ mon[r] # "off"
    /\ \E p \in DOMAIN procs :
           procs[p].by = r /\ procs[p].how = "exit" /\ ~procs[p].ingrace

\* C5: for a connect request whose process survives the grace window and later
\* exits on its own, the status events delivered for that request are exactly
\* connecting, connected, disconnected, each once and in that order.
C5_SurvivorSequence ==
    \A r \in Reqs :
        SurvivedThenExited(r) => Statuses(r) = <<"connecting", "connected", "disconnected">>

\* C6: 'connected' is never delivered for a connect request before its process
\* has been confirmed alive after the grace period (the confirmation is what
\* starts the request's _monitor_vnc_client thread).
C6_ConnectedAfterConfirm ==
    \A i \in DOMAIN events :
        events[i].status = "connected" => mon[events[i].req] # "off"

\* C7: every accepted connect request whose threads have finished got exactly
\* one terminal outcome: one 'failed' and nothing else, or one 'connected'
\* followed by one 'disconnected'.
C7_OneTerminalEvent ==
    \A r \in Reqs :
        (result[r] = "True" /\ pc[r] = "done") =>
            \/ Statuses(r) = <<"failed">>
            \/ Statuses(r) = <<"connected", "disconnected">>

\* events[i] is the 'connected' a connect worker publishes after the grace check
WorkerConnected(i) ==
    events[i].status = "connected" /\ events[i].by = "_connect_vnc_thread"

\* C8: when a connect request is issued while an earlier session is connected,
\* a 'disconnected' is published after the old session's 'connected' and before
\* the first status event of the new request, and the old session's monitor
\* publishes no 'disconnected' after the new session's 'connected'.
C8_OldDisconnectedFirst ==
    \A i, j \in DOMAIN events :
        (i < j /\ WorkerConnected(i) /\ events[j].req \in Reqs \ {events[i].req}) =>
            /\ events[j].by = "handle_vnc_connect" /\ result[events[j].req] = "True" =>
                   \E k \in (i+1)..(j-1) : events[k].status = "disconnected"
            /\ WorkerConnected(j) =>
                   \A k \in (j+1)..Len(events) :
                       ~(events[k].req = events[i].req /\ events[k].status = "disconnected")

\* C9: when a disconnect request was processed while a connect worker was
\* between acceptance and verdict, then once both have finished no launched
\* process is alive and the connector reports not connected.
C9_CancelStopsProcess ==
    ((\A d \in DReqs : pc[d] \in {"idle", "done"}) /\ (\E d \in DReqs : pc[d] = "done")
        /\ \A r \in Reqs : ~Connecting(r))
      => (~is_connected /\ \A p \in DOMAIN procs : ~Alive(p))

\* C10: a disconnect request, in particular one received when no session is
\* active, returns success and publishes neither 'failed' nor 'connected'.
C10_DisconnectPublishesOnlyDisconnected ==
    \A d \in DReqs :
        /\ pc[d] = "done" => result[d] = "True"
        /\ \A i \in DOMAIN events :
               events[i].req = d => events[i].status \notin {"failed", "connected"}

\* a disconnect request has been processed on a connector that never had a session
C10_Witness ==
    /\ \E d \in DReqs : pc[d] = "done"
    /\ \A r \in Reqs : pc[r] = "idle"
    /\ procs = << >>
    /\ Len(events) = 2

\* the connector and the display as a disconnect leaves them: connected False,
\* no tracked handle, QR window shown
NotRunning(c, h, w) == c = FALSE /\ h = 0 /\ w = TRUE

\* C11: disconnect is idempotent: a disconnect request that follows a completed
\* disconnect request starts from connected False, no tracked handle and the QR
\* window shown, and each of its steps leaves the three that way, so twice in a
\* row ends in the state that once ended in.
C11_DisconnectIdempotent ==
    [][\A a \in AReqs : pc'[a] # pc[a] =>
          /\ NotRunning(connected, vnc_process, window_shown)
          /\ NotRunning(connected', vnc_process', window_shown')]_vars

\* a second disconnect has completed after the first one stopped the process of
\* a connected session
C11_Witness ==
    /\ \E a \in AReqs : pc[a] = "done"
    /\ \E i \in DOMAIN events : WorkerConnected(i)
    /\ \E p \in DOMAIN procs : procs[p].how \in {"term", "kill"}

\* C12: when disconnect() returns to a disconnect request, connected is False and
\* vnc_process is None and the caller goes on to show the window, whether or not
\* terminate() raised, the wait timed out, kill() raised or the name sweep failed.
C12_DisconnectEndsNotRunning ==
    [][\A d \in DReqs \cup AReqs : (pc[d] = "d3" /\ pc'[d] # "d3") =>
          /\ pc'[d] = "show"
          /\ connected' = FALSE
          /\ vnc_process' = 0]_vars

\* a disconnect request has completed on a Linux host although a process it was
\* asked to stop is still alive: the kill raised and the name sweep failed
C12_Witness ==
    /\ system = "Linux"
    /\ \E d \in DReqs : pc[d] = "done"
    /\ \A r \in Reqs : pc[r] \in {"idle", "hmon", "done"}
    /\ \E p \in DOMAIN procs : procs[p].state = "terminating"
    /\ connected = FALSE /\ vnc_process = 0

\* C13: a process is force-killed through the handle only after graceful
\* termination was requested of it and a wait on it ran into the timeout.
C13_GracefulBeforeKill ==
    [][\A p \in DOMAIN procs :
          (Alive(p) /\ procs'[p].state = "dead" /\ procs'[p].how = "kill") =>
              /\ procs[p].state = "terminating"
              /\ \E t \in Threads : pc[t] = "d2" /\ waiting[t] = p]_vars

\* C14: once the application has exited (Escape, window close or a shutdown
\* request from the web interface) no launched client process is alive.
C14_NoProcessOutlivesApp ==
    pc[App] = "exited" => \A p \in DOMAIN procs : ~Alive(p)

\* worker r resolves the client and calls (or does not call) subprocess.Popen
LaunchStep(r) == pc[r] = "launch" /\ pc'[r] # "launch"

\* C15: when the request names a client of the platform's registry, only that
\* client is launched, and if it is not installed nothing is launched.
C15_NamedClientOnly ==
    [][\A r \in Reqs : (LaunchStep(r) /\ sel[r] \in RegistryKeys) =>
          /\ procs' # procs => popen_args'.client = sel[r]
          /\ ~Locatable(sel[r]) => procs' = procs /\ popen_args' = popen_args]_vars

\* the order in which the platform's resolver tries its clients
RegistryOrder == CASE system = "Windows" -> WindowsOrder
                   [] system = "Darwin"  -> <<"macos_screen_sharing">>
                   [] OTHER              -> LinuxOrder

\* the earliest installed client in that order, None if none is installed
EarliestInstalled ==
    LET found == {i \in DOMAIN RegistryOrder : Locatable(RegistryOrder[i])}
    IN IF found = {} THEN None
       ELSE RegistryOrder[CHOOSE i \in found : \A j \in found : i <= j]

\* C16: when the request names no client, the resolver resolves to the earliest
\* installed client in the platform's try order, and to none (no Popen call) only
\* when no client is installed.
C16_FirstInstalledInOrder ==
    [][\A r \in Reqs : (LaunchStep(r) /\ sel[r] = None) =>
          IF EarliestInstalled = None
          THEN procs' = procs /\ popen_args' = popen_args
          ELSE popen_args'.client = EarliestInstalled]_vars

\* on a Linux host without remmina but with vncviewer and vinagre, the loop over
\* all clients (the only code that assigns client_env_vars there) resolved to
\* tigervnc and the process was started
C16_Witness ==
    /\ system = "Linux"
    /\ installed = {"vncviewer", "vinagre"}
    /\ pc[1] = "grace"
    /\ popen_args.client = "tigervnc"
    /\ client_env_vars.kind = "dict"
    /\ Len(procs) = 1

\* the glob matches of all search patterns on the host
AllMatches ==
    {k \in DOMAIN GlobFiles :
        /\ GlobFiles[k] \in installed
        /\ \E i \in DOMAIN SearchPatterns : GlobMatches(SearchPatterns[i], GlobFiles[k])}

\* C17: the TigerVNC executable the locator returns is the greatest, under
\* string order, of all files that match any of the search patterns.
C17_LocatorPicksGreatest ==
    (system = "Windows" /\ popen_args.client = "tigervnc") =>
        popen_args.cmd[1] = GlobFiles[CHOOSE k \in AllMatches : \A j \in AllMatches : j <= k]

\* 'supports_password' and 'auth_method' of a client of the running system
SupportsPassword(key) == CASE system = "Windows" -> WindowsSupportsPassword(key)
                           [] system = "Darwin"  -> FALSE
                           [] OTHER              -> LinuxSupportsPassword(key)
AuthMethod(key) == CASE system = "Windows" -> WindowsAuthMethod(key)
                     [] system = "Darwin"  -> "url"
                     [] OTHER              -> LinuxAuthMethod(key)

\* the command and environment of a launch carry the credential of the request
\* the way the client's auth_method says
Carries(args, data) ==
    CASE AuthMethod(args.client) = "cli_param" ->
             \E i \in 1..(Len(args.cmd) - 1) :
                 args.cmd[i] = "-password" /\ args.cmd[i + 1] = data.password
      [] AuthMethod(args.client) = "env_vars" ->
             args.env = env_vars(data.username, data.password)
      [] AuthMethod(args.client) = "url_based" ->
             \E i \in DOMAIN args.cmd :
                 args.cmd[i] = "vnc://" \o data.username \o ":" \o data.password \o "@"
                                  \o connection_string(data.ip, data.port)
      [] OTHER -> TRUE

\* C18: a launch for a request with a non-empty password, of a client that
\* declares password support, carries the credential by the client's declared
\* strategy, whether the client was named or auto-selected.
C18_CredentialByStrategy ==
    [][\A r \in Reqs :
          (/\ LaunchStep(r) /\ procs' # procs
           /\ request[r].password # ""
           /\ SupportsPassword(popen_args'.client)) => Carries(popen_args', request[r])]_vars


\* the step of _monitor_vnc_connection in which its is_connected() call returned
\* False: the only step that takes worker r out of the polling loop
IsConnectedReturnedFalse(r) == pc[r] = "hmon" /\ pc'[r] = "show"

\* C19: is_connected is a read-only accessor: the call leaves the session flag
\* and the process handle (connected, vnc_process) as they were.
C19_IsConnectedReadOnly ==
    [][\A r \in Reqs : IsConnectedReturnedFalse(r)
           => connected' = connected /\ vnc_process' = vnc_process]_vars


\* process p has ended after the worker that started it had declared the
\* session connected (p outlived that worker's grace sleep)
ConnectedExited(p) ==
    /\ p \in DOMAIN procs
    /\ ~Alive(p)
    /\ ~procs[p].ingrace
    /\ mon[procs[p].by] # "off"

\* a 'disconnected' message has been published, by any monitor or disconnect
\* request (the steps that publish it call show_window() first)
DisconnectedPublished == \E i \in DOMAIN events : events[i].status = "disconnected"

\* C20: whenever a client process that reached Connected exits, then with fair
\* scheduling a 'disconnected' message is eventually published (and with it the
\* QR window is shown again).
C20_ExitLeadsToDisconnected ==
    \A p \in 1..MaxReq : ConnectedExited(p) ~> DisconnectedPublished


\* the step in which handle_vnc_request answers the connect request r
Answered(r) == pc[r] = "idle" /\ pc'[r] # "idle"

\* C21: a connect request without a host or a username, or whose port is not a
\* positive integer, is rejected: failure is returned, no worker is started and
\* the tracked session and its process are left as they were.  A worker that is
\* started therefore has a host, a username and a positive port.
C21_InvalidRequestRejected ==
    [][\A r \in Reqs : Answered(r) =>
          IF pc'[r] = "d1"
          THEN /\ request'[r].ip # ""
               /\ request'[r].username # ""
               /\ request'[r].port > 0
          ELSE /\ result'[r] = "False"
               /\ pc'[r] = "done"
               /\ <<connected, vnc_process, procs>>' = <<connected, vnc_process, procs>>]_vars


\* worker r ends its grace sleep while the client it launched is running
SurvivedGrace(r) ==
    /\ pc[r] = "grace"
    /\ pc'[r] # "grace"
    /\ \E p \in DOMAIN procs : procs[p].by = r /\ Alive(p)

\* C22: whatever failed attempts, disconnects and process exits came before, a
\* connect request whose client is resolved, launched and alive at the end of
\* the grace window ends connected.
C22_ConnectAfterFailures ==
    [][\A r \in Reqs : SurvivedGrace(r) => connected' /\ pc'[r] = "hide"]_vars

\* the first attempt has failed in its worker and the second one is connected
C22_Witness ==
    /\ \E i \in DOMAIN events : /\ events[i].req = 1
                                /\ events[i].status = "failed"
                                /\ events[i].by = "_connect_vnc_thread"
    /\ pc[2] = "hmon"
    /\ connected
    /\ vnc_process # 0
    /\ Alive(vnc_process)


\* C23: the saved servers hold host, port and username only: no saved server
\* has a password.
C23_NoCredentialSaved ==
    \A i \in DOMAIN saved_servers : saved_servers[i].password = None


\* the 'executable' of a registry client of the current platform
Executable(key) == IF system = "Windows" THEN WindowsExecutable(key) ELSE LinuxExecutable(key)

\* the 'locations' of a registry client of the current platform
Locations(key) == IF system = "Windows" THEN WindowsLocations(key) ELSE << >>

\* where the client is found when the search path is looked at first, then the
\* fixed locations in their order, then the glob patterns
Located(key) ==
    IF which(installed, Executable(key)) THEN Executable(key)
    ELSE IF FirstIn(Locations(key), installed) # 0
    THEN Locations(key)[FirstIn(Locations(key), installed)]
    ELSE IF system = "Windows" /\ key = "tigervnc" THEN find_tigervnc_executable(installed)
    ELSE None

Monitoring(r) == mon[r] = "run" \/ pc[r] = "hmon"

\* C25: one monitor per active session: while a session is connected, the only
\* monitor loops that run are those of the worker that launched the tracked
\* process; no loop of an earlier session goes on with the newer one.
C25_OneMonitorPerSession ==
    \A r \in Reqs :
        (connected /\ vnc_process # 0 /\ Monitoring(r)) => procs[vnc_process].by = r


\* the _monitor_vnc_client loop of worker r is running and the client that
\* worker r launched has exited
MonitoredExited(r) ==
    /\ mon[r] = "run"
    /\ \E p \in DOMAIN procs : procs[p].by = r /\ ~Alive(p)

\* C26: every _monitor_vnc_client loop terminates: once the process of its
\* session has exited, the loop, scheduled fairly, observes it and stops.
C26_MonitorTerminates ==
    \A r \in Reqs : MonitoredExited(r) ~> (mon[r] = "done")


\* C27: the teardown sweep covers every client the locator can launch: the
\* executable of every process the connector has started is matched by one of
\* the names the sweep uses on this platform.
C27_SweepCoversLaunched ==
    \A p \in DOMAIN procs : SweepCovers(system, procs[p].exe)


\* C28: connected and the handle are consistent in every reachable state:
\* connected is true only if vnc_process is a handle, and the handle is that of
\* the process launched last.
C28_StateHandleConsistent ==
    connected => vnc_process # 0 /\ vnc_process = Len(procs)


\* no request is in progress and no monitor has anything left to do: every
\* monitor loop that runs would find the session connected at its next poll
Quiescent ==
    /\ Quiet
    /\ \A r \in Reqs : pc[r] # "show"
    /\ \A r \in Reqs : Monitoring(r) => is_connected

\* C29: in every quiescent state the QR window is hidden if and only if a
\* session is connected.
C29_WindowMatchesSession ==
    Quiescent => (window_shown <=> ~is_connected)


\* worker r calls subprocess.Popen in this step
PopenStep(r) == LaunchStep(r) /\ get_vnc_command(system, installed, sel[r]) # NoCmd

\* C30: the environment of a launched client has VNC_USERNAME and VNC_PASSWORD
\* only when the client chosen for this request uses the environment-variable
\* strategy, and then with the values of this request; nothing of an earlier
\* request is in it.
C30_EnvOfThisRequest ==
    [][\A r \in Reqs : (PopenStep(r) /\ popen_args'.env.kind = "dict") =>
          /\ AuthMethod(popen_args'.client) = "env_vars"
          /\ popen_args'.env = env_vars(request[r].username, request[r].password)]_vars

\* the connect worker of request r has built its connection string
Built(r) == request[r] # NoRequest /\ pc[r] \notin {"idle", "d1", "d2", "d3", "launch"}

\* C31: for a fixed host, two requests with different positive ports never
\* produce the same connection string.
C31_PortPreserved ==
    \A r1, r2 \in Reqs :
        (/\ Built(r1) /\ Built(r2)
         /\ request[r1].ip = request[r2].ip
         /\ request[r1].port > 0 /\ request[r2].port > 0
         /\ request[r1].port # request[r2].port)
        => connection_string(request[r1].ip, request[r1].port)
               # connection_string(request[r2].ip, request[r2].port)

\* C32: on every platform and for every set of installed executables, a client
\* id is in the list of available clients if and only if a connect request that
\* names this id resolves to a launch command for that client.
C32_ListAgreesWithResolution ==
    [][\A r \in Reqs :
          (LaunchStep(r) /\ sel[r] # None /\ vnc_clients.status = "success") =>
              ((sel[r] \in SeqRange(vnc_clients.clients))
                   <=> (PopenStep(r) /\ popen_args'.client = sel[r]))]_vars

\* the disconnect request running on thread t comes to its end
DisconnectEnds(t) == ppc[t] = "call" /\ ppc'[t] # "call"

\* the 'disconnected' messages sent on behalf of thread t
DisconnectedOf(evs, t) ==
    {i \in DOMAIN evs : evs[i].status = "disconnected" /\ evs[i].req = t}

\* C33: in the Pygame application a disconnect request, from the web page or
\* from the Escape key in VNC mode, comes to an end by returning success, with
\* vnc_mode false and exactly one 'disconnected' message sent.
C33_DisconnectReturns ==
    [][\A t \in Disconnecters : DisconnectEnds(t) =>
          /\ ppc'[t] = "returned"
          /\ ~vnc_mode'
          /\ Cardinality(DisconnectedOf(pygame_events', t)) = 1]_vars

\* the connection thread of connect call r makes its first pass through the
\* loop of _monitor_vnc_startup while the client of its call is the current one
FirstPass(r) ==
    /\ cthread[r] = "run" /\ cthread'[r] # "run"
    /\ vnc_client # 0 /\ vnc_client = client_of[r]

\* C34: for every connect call on one PygameVNCConnector, the second and later
\* ones included, the connection thread starts the newly created client, and
\* no client is started more than once.
C34_ClientStartedOnce ==
    [][/\ \A r \in Reqs : FirstPass(r) => clients'[client_of[r]].started = 1
       /\ \A c \in DOMAIN clients' : clients'[c].started <= 1]_vars

\* positions of the saved servers whose ip and port differ from server_data's
Others(servers, server_data) ==
    {i \in DOMAIN servers : ~SameServer(servers[i], server_data)}

\* no two saved servers have the same ip and port
OnePerPair ==
    \A i, j \in DOMAIN saved_servers :
        SameServer(saved_servers[i], saved_servers[j]) => i = j

\* this step saved server_data as the claim describes: a new pair is appended,
\* an existing pair keeps its position and takes the submitted values, every
\* other entry is as before
SavedInPlace(server_data) ==
    LET others == Others(saved_servers, server_data)
    IN IF others = DOMAIN saved_servers
       THEN saved_servers' = Append(saved_servers, server_data)
       ELSE /\ Len(saved_servers') = Len(saved_servers)
            /\ \A i \in others : saved_servers'[i] = saved_servers[i]
            /\ \A i \in DOMAIN saved_servers \ others :
                   /\ SameServer(saved_servers'[i], server_data)
                   /\ saved_servers'[i].username = server_data.username
                   /\ saved_servers'[i].password =
                          IF server_data.password = None THEN saved_servers[i].password
                          ELSE server_data.password

\* this step deleted exactly the entries with server_data's ip and port: the
\* others are all there, unchanged and in their order, and nothing else is
DeletedExactly(server_data) ==
    LET kept == Others(saved_servers, server_data)
        rank(i) == Cardinality({j \in kept : j <= i})
    IN /\ Len(saved_servers') = Cardinality(kept)
       /\ \A i \in kept : saved_servers'[rank(i)] = saved_servers[i]

\* C35: starting from an empty list, after any sequence of save_server and
\* delete_server calls the list has at most one entry per (ip, port); saving
\* an existing pair updates that entry in place; deleting removes exactly the
\* entries with the given pair and leaves all others unchanged.
C35_OneEntryPerServer ==
    /\ []OnePerPair
    /\ [][\A server_data \in ConfigData :
              /\ api_servers_post(server_data) => SavedInPlace(server_data)
              /\ api_servers_delete(server_data) => DeletedExactly(server_data)]_vars

\* bob's passwordless server was saved over alice's entry, which kept its place
\* in front of a server saved later and kept its password
C35_Witness ==
    /\ Len(saved_servers) = 2
    /\ saved_servers[1] = ServerData("192.168.1.5", 5900, "bob", "secret")
    /\ saved_servers[2].ip = "192.168.1.5" /\ saved_servers[2].port = 5901

\* C36: a POST to the settings endpoint is answered with success, never with
\* an unhandled error, and where autostart is supported the submitted settings
\* are merged into the stored ones.
C36_SettingsPostSucceeds ==
    [][\A submitted \in SettingsData : api_settings_post(submitted) =>
          /\ settings_response' = Response(200, [status |-> "success"])
          /\ is_autostart_supported(system) =>
                 settings' = save_settings(settings, submitted)]_vars

====
